---- MODULE Spec2Model ----
(***************************************************************************)
(* Scheduling and condition-evaluation engine of hidro_system.             *)
(*                                                                         *)
(* The model follows class Scheduler (scheduler.js, lines 495-957 of       *)
(* src/app.js) and class GPIOController (src/gpio_controller.js).  The     *)
(* timer layer (node-cron tasks, setTimeout, setInterval) is part of the   *)
(* state: a timer exists from the call that creates it until it fires      *)
(* (setTimeout) or is cancelled, whether or not the Scheduler still holds  *)
(* a reference to it.                                                      *)
(*                                                                         *)
(* Time is in seconds.  A timer carries the time left until it is due      *)
(* (remaining); the passing of time lowers it on every timer alike.        *)
(* Temperatures and humidities are in tenths of a unit (readDHT11 rounds   *)
(* to one decimal).                                                        *)
(***************************************************************************)
EXTENDS Integers, Sequences, FiniteSets, Bags, TLC

VARIABLES
    backupFrequency,   \* config.backup.frequency
    dbSchedules,       \* table schedules, ORDER BY day_of_week, start_time
    dbConditions,      \* table conditions
    activeSchedules,   \* Scheduler.activeSchedules : key -> {schedule, task}
    activeConditions,  \* Scheduler.activeConditions : Map in insertion order
    scheduledTasks,    \* Scheduler.scheduledTasks : names of the system tasks
    isRunning,         \* Scheduler.isRunning
    pendingInit,       \* init() invocations suspended at an await
    cronTasks,         \* node-cron tasks that are started and not stopped
    timeouts,          \* setTimeout callbacks not yet fired, with the time left
    intervals,         \* setInterval loops, with the time to the next tick
    releStates,        \* releStates of the Scheduler's GPIOController
    appReleStates,     \* releStates of the GPIOController of app.js
    pins,              \* level last written to each relay pin
    dht11,             \* GPIOController.dht11: lastReading, and whether
                       \* lastReadTime is less than minReadInterval ago (recent)
    systemLog,         \* rows the last handler inserted into system_logs
    releStateLog,      \* rows the last handler inserted into rele_states
    calls,             \* stop() and restart() calls made so far (bounded)
    failedReads,       \* polls in a row, up to now, in which readDHT11 gave null
    event              \* what the last handler did

vars == << backupFrequency, dbSchedules, dbConditions, activeSchedules,
           activeConditions, scheduledTasks, isRunning, pendingInit, cronTasks,
           timeouts, intervals, releStates, appReleStates, pins, dht11, systemLog,
           releStateLog, calls, failedReads, event >>

----------------------------------------------------------------------------
(* Bounds of the model *)

MaxFailedReads == 3    \* failedReads counts up to here
MaxCalls == 1          \* stop() and restart() calls after construction
MaxTimeouts == 2       \* setTimeout callbacks pending at once
MaxDistinct == 1       \* different ones among them, when stop() and restart()
                       \* are called (Spec)

(* Program constants *)

ReleCount == 4                 \* controlRele accepts 1..4
SecondsPerDay == 86400         \* 24 * 60 * 60
PollSeconds == 60              \* config.sensors.conditionCheckInterval / 1000
ShippedBackupFrequency == 24   \* config.backup.frequency
EqualityBand == 5              \* Math.abs(..) < 0.5, in tenths
MinReadSeconds == 2            \* DHT11Sensor.minReadInterval / 1000

Reles == 1..ReleCount

----------------------------------------------------------------------------
(* Rows of the rule store.  start_time and end_time are 'HH:mm' strings in  *)
(* the program; a time is modelled as the pair <<hour, minute>> that        *)
(* split(':').map(Number) and moment(.., 'HH:mm') both read from it.        *)

ScheduleRow(id, rele, day, start, end) ==
    [id |-> id, rele_id |-> rele, day_of_week |-> day,
     start_time |-> start, end_time |-> end, is_active |-> TRUE]

ConditionRow(id, rele, type, op, threshold, action, duration) ==
    [id |-> id, rele_id |-> rele, condition_type |-> type, operator |-> op,
     threshold_value |-> threshold, action |-> action, duration |-> duration,
     is_active |-> TRUE]

NoSchedule == ScheduleRow(0, 0, 0, <<0, 0>>, <<0, 0>>)

(* The rule stores the model starts from. *)
ScheduleStores ==
    { << ScheduleRow(4, 3, 0, <<24, 0>>, <<1, 0>>),
         ScheduleRow(1, 1, 1, <<8, 0>>, <<8, 1>>),
         ScheduleRow(5, 3, 2, <<9, 60>>, <<10, 0>>) >>,
      << ScheduleRow(2, 1, 0, <<23, 59>>, <<0, 1>>),
         ScheduleRow(3, 2, 6, <<12, 0>>, <<12, 0>>) >> }

ConditionStores ==
    { << ConditionRow(1, 1, "temperature", ">", 300, "activate", 120),
         ConditionRow(2, 1, "humidity", "<", 500, "deactivate", 0) >>,
      << ConditionRow(3, 5, "temperature", ">", 300, "activate", 60),
         ConditionRow(4, 3, "ph", "<", 70, "activate", 0),
         ConditionRow(5, 2, "humidity", "<", 500, "deactivate", 0) >> }

(* What DHT11Sensor.read can hand to readDHT11. *)
Samples ==
    { [temperature |-> 312, humidity |-> 600],
      [temperature |-> 250, humidity |-> 450],
      [temperature |-> 312, humidity |-> 450] }

NoSample == [temperature |-> 0, humidity |-> 0]

(* The values DHT11Sensor.read returns when it has no reading at all. *)
DefaultReading == [temperature |-> 250, humidity |-> 600]

BackupFrequencies == {6, ShippedBackupFrequency}

(* The operators of a condition, a store with one condition on the        *)
(* temperature for each of them (threshold 25.0), and readings around the  *)
(* threshold.                                                              *)
Operators == {">", "<", ">=", "<=", "=="}

ComparisonStores ==
    { << ConditionRow(1, 1, "temperature", op, 250, "activate", 0) >> :
         op \in Operators }

ComparisonSamples ==
    { [temperature |-> t, humidity |-> 600] :
         t \in {244, 245, 246, 250, 254, 255, 256} }

(* The bodies of POST /api/schedule and POST /api/condition (no id: id 0), *)
(* and the rows that saveSchedule and saveCondition insert for them.      *)
PostedSchedule == ScheduleRow(0, 4, 3, <<6, 0>>, <<6, 1>>)
PostedCondition == ConditionRow(0, 4, "humidity", ">", 700, "activate", 0)
SavedSchedule == [PostedSchedule EXCEPT !.id = 7]
SavedCondition == [PostedCondition EXCEPT !.id = 6]

(* The same bodies with is_active as the client sends it: 1 or 0. *)
PostedSchedules == { [PostedSchedule EXCEPT !.is_active = a] : a \in BOOLEAN }
PostedConditions == { [PostedCondition EXCEPT !.is_active = a] : a \in BOOLEAN }

----------------------------------------------------------------------------
(* Bags of timers *)

\* The bag B with every timer marked as created before a stop().
MarkStale(B) ==
    LET old(r) == [r EXCEPT !.stale = TRUE]
        img == { old(r) : r \in DOMAIN B }
    IN  [ s \in img |->
            (IF s \in DOMAIN B THEN B[s] ELSE 0)
          + (IF [s EXCEPT !.stale = FALSE] \in DOMAIN B
                THEN B[[s EXCEPT !.stale = FALSE]] ELSE 0) ]

\* The sub-bag of B of the elements that satisfy P.
BagFilter(B, P(_)) ==
    LET keep == { r \in DOMAIN B : P(r) } IN [ r \in keep |-> B[r] ]

Single(r) == SetToBag({r})

\* The bounds on the pending setTimeout callbacks
WithinBounds(B, distinct) ==
    /\ BagCardinality(B) <= MaxTimeouts
    /\ Cardinality(DOMAIN B) <= distinct

Min(S) == CHOOSE x \in S : \A y \in S : x <= y

----------------------------------------------------------------------------
(* Database: the two audit tables.  The program only ever inserts into     *)
(* them (INSERT INTO system_logs / rele_states, no UPDATE or DELETE), so a  *)
(* table is the concatenation of the rows its handlers inserted; the state  *)
(* keeps the rows of the last handler.                                      *)

LogEntry(level, source, message) ==
    [level |-> level, source |-> source, message |-> message]

\* Database.saveSystemLog: INSERT INTO system_logs
saveSystemLog(log, level, source, message) ==
    Append(log, LogEntry(level, source, message))

\* Database.saveReleState: INSERT INTO rele_states
saveReleState(log, releId, state, reason) ==
    Append(log, [rele_id |-> releId, state |-> state, reason |-> reason])

\* Database.getActiveSchedules / getActiveConditions: WHERE is_active = 1
getActiveRows(rows) == SelectSeq(rows, LAMBDA r : r.is_active)

----------------------------------------------------------------------------
(* GPIOController.  The executor state g that the handlers thread through   *)
(* their calls: releStates, pins, timeouts, the two tables, the controlRele *)
(* calls made (calls) with what each returned, for each call the INSERTs    *)
(* for its relay that were in flight when it began (begun), and the rules   *)
(* run (runs).                                                              *)

\* rpio.LOW / rpio.HIGH for a relay state, config.gpio.releActiveLow = true
pinState(state) == IF state THEN "LOW" ELSE "HIGH"

\* The INSERTs for relay releId that the running handler has issued.  db.run
\* only queues the statement and neither controlRele nor its callers await
\* the promise: the callback that completes an INSERT runs in a later task of
\* the event loop, so none of them is complete while the handler runs.
InFlight(g, releId) ==
    Len(SelectSeq(g.systemLog, LAMBDA e : /\ e.source = "GPIOController"
                                          /\ e.message[1] = "rele"
                                          /\ e.message[2] = releId))

\* controlRele with the state update left for a later task
controlReleDeferredState(g, releId, state, reason, writeOk) ==
    IF releId < 1 \/ releId > ReleCount
    THEN [g EXCEPT !.ret = "throw",
                   !.begun = Append(@, InFlight(g, releId)),
                   !.calls = Append(@, [rele_id |-> releId, state |-> state,
                                        ret |-> "throw"])]
    ELSE IF writeOk
    THEN [g EXCEPT
            !.pins[releId] = pinState(state),
            !.releStateLog = saveReleState(@, releId, state, reason),
            !.systemLog = saveSystemLog(@, "info", "GPIOController",
                                        <<"rele", releId, state>>),
            !.ret = "true",
            !.begun = Append(@, InFlight(g, releId)),
            !.calls = Append(@, [rele_id |-> releId, state |-> state,
                                 ret |-> "true"])]
    ELSE [g EXCEPT
            !.systemLog = saveSystemLog(@, "error", "GPIOController",
                                        <<"rele", releId, state>>),
            !.ret = "false",
            !.begun = Append(@, InFlight(g, releId)),
            !.calls = Append(@, [rele_id |-> releId, state |-> state,
                                 ret |-> "false"])]

\* controlRele with releStates set before the write is known to succeed
controlReleOptimistic(g, releId, state, reason, writeOk) ==
    IF releId < 1 \/ releId > ReleCount
    THEN [g EXCEPT !.ret = "throw",
                   !.begun = Append(@, InFlight(g, releId)), !.calls = Append(@, [rele_id |-> releId, state |-> state,
                                        ret |-> "throw"])]
    ELSE [g EXCEPT
            !.releStates[releId] = state,
            !.pins[releId] = IF writeOk THEN pinState(state) ELSE @,
            !.releStateLog = IF writeOk THEN saveReleState(@, releId, state, reason)
                             ELSE @,
            !.systemLog = saveSystemLog(@, IF writeOk THEN "info" ELSE "error",
                                        "GPIOController", <<"rele", releId, state>>),
            !.ret = IF writeOk THEN "true" ELSE "false",
            !.begun = Append(@, InFlight(g, releId)), !.calls = Append(@, [rele_id |-> releId, state |-> state,
                                 ret |-> IF writeOk THEN "true" ELSE "false"])]

\* controlRele with a catch block that records nothing
controlReleSilentCatch(g, releId, state, reason, writeOk) ==
    IF releId < 1 \/ releId > ReleCount
    THEN [g EXCEPT !.ret = "throw",
                   !.begun = Append(@, InFlight(g, releId)), !.calls = Append(@, [rele_id |-> releId, state |-> state,
                                        ret |-> "throw"])]
    ELSE IF writeOk
    THEN [g EXCEPT
            !.pins[releId] = pinState(state),
            !.releStates[releId] = state,
            !.releStateLog = saveReleState(@, releId, state, reason),
            !.systemLog = saveSystemLog(@, "info", "GPIOController",
                                        <<"rele", releId, state>>),
            !.ret = "true",
            !.begun = Append(@, InFlight(g, releId)), !.calls = Append(@, [rele_id |-> releId, state |-> state,
                                 ret |-> "true"])]
    ELSE [g EXCEPT
            !.ret = "false",
            !.begun = Append(@, InFlight(g, releId)), !.calls = Append(@, [rele_id |-> releId, state |-> state,
                                 ret |-> "false"])]

\* GPIOController.controlRele(releId, state, reason); writeOk is whether
\* rpio.write returns (TRUE) or throws (FALSE).  ret is "throw" when the
\* call itself throws (invalid id), else what it returns.
controlRele(g, releId, state, reason, writeOk) ==
    IF releId < 1 \/ releId > ReleCount
    THEN [g EXCEPT !.ret = "throw",
                   !.begun = Append(@, InFlight(g, releId)), !.calls = Append(@, [rele_id |-> releId, state |-> state,
                                        ret |-> "throw"])]
    ELSE IF writeOk
    THEN [g EXCEPT
            !.pins[releId] = pinState(state),
            !.releStates[releId] = state,
            !.releStateLog = saveReleState(@, releId, state, reason),
            !.systemLog = saveSystemLog(@, "info", "GPIOController",
                                        <<"rele", releId, state>>),
            !.ret = "true",
            !.begun = Append(@, InFlight(g, releId)), !.calls = Append(@, [rele_id |-> releId, state |-> state,
                                 ret |-> "true"])]
    ELSE [g EXCEPT
            !.systemLog = saveSystemLog(@, "error", "GPIOController",
                                        <<"rele", releId, state>>),
            !.ret = "false",
            !.begun = Append(@, InFlight(g, releId)), !.calls = Append(@, [rele_id |-> releId, state |-> state,
                                 ret |-> "false"])]

\* GPIOController.checkThresholds, config.sensors.thresholds in tenths
checkThresholds(log, temperature, humidity) ==
    LET l1 == IF temperature < 180 \/ temperature > 280
              THEN saveSystemLog(log, "warn", "GPIOController", <<"temperature">>)
              ELSE log
    IN  IF humidity < 400 \/ humidity > 800
        THEN saveSystemLog(l1, "warn", "GPIOController", <<"humidity">>)
        ELSE l1

\* DHT11Sensor.read(): reading is what the sensor gives now and valid
\* whether it was read and passed isValidReading.  Returns <<readout, dht11>>;
\* lastReading = NoSample stands for null.
DHT11Sensor_read(sensor, reading, valid) ==
    IF sensor.recent /\ sensor.lastReading # NoSample
    THEN << sensor.lastReading, sensor >>
    ELSE IF valid
    THEN << reading, [lastReading |-> reading, recent |-> TRUE] >>
    ELSE IF sensor.lastReading # NoSample
    THEN << sensor.lastReading, sensor >>
    ELSE << DefaultReading, sensor >>

\* readDHT11 that hands out the readout also when the try block fails
readDHT11KeepReadout(log, readout, readOk) ==
    IF readOk
    THEN << readout, TRUE,
            checkThresholds(log, readout.temperature, readout.humidity) >>
    ELSE << readout, TRUE,
            saveSystemLog(log, "error", "GPIOController", <<"DHT11">>) >>

\* GPIOController.readDHT11: readOk is whether the try block completes.
\* Returns <<sample or NoSample, is a sample, system_logs>>.
readDHT11(log, readout, readOk) ==
    IF readOk
    THEN << readout, TRUE,
            checkThresholds(log, readout.temperature, readout.humidity) >>
    ELSE << NoSample, FALSE,
            saveSystemLog(log, "error", "GPIOController", <<"DHT11">>) >>

----------------------------------------------------------------------------
(* Scheduler: the two executor entry points *)

\* moment(t, 'HH:mm'): seconds since the start of the current day
moment(t) == t[1] * 3600 + t[2] * 60

\* The duration with a day added also when end_time equals start_time
scheduleDurationFullDay(schedule) ==
    LET duration == moment(schedule.end_time) - moment(schedule.start_time)
    IN  IF duration <= 0 THEN duration + SecondsPerDay ELSE duration

\* endTime.diff(startTime, 'seconds') and the midnight correction
scheduleDuration(schedule) ==
    LET duration == moment(schedule.end_time) - moment(schedule.start_time)
    IN  IF duration < 0 THEN duration + SecondsPerDay ELSE duration

\* setTimeout(() => controlRele(releId, false, ..), seconds * 1000)
Timeout(releId, seconds, kind, id) ==
    [rele_id |-> releId, remaining |-> seconds, origin |-> <<kind, id>>,
     stale |-> FALSE]

\* executeSchedule that arms the deactivation only when the relay went ON
executeScheduleArmOnSuccess(g, schedule, writeOk) ==
    LET g1 == controlRele([g EXCEPT !.runs = Append(@, <<"schedule", schedule.id>>)],
                          schedule.rele_id, TRUE, "schedule", writeOk)
    IN  IF g1.ret = "throw"
        THEN [g1 EXCEPT !.systemLog =
                 saveSystemLog(@, "error", "Scheduler", <<"schedule", schedule.id>>)]
        ELSE [g1 EXCEPT
                 !.timeouts = IF g1.ret = "true"
                              THEN @ (+) Single(Timeout(schedule.rele_id,
                                            scheduleDuration(schedule),
                                            "schedule", schedule.id))
                              ELSE @,
                 !.systemLog =
                     saveSystemLog(@, "info", "Scheduler", <<"schedule", schedule.id>>)]

\* Scheduler.executeSchedule(schedule)
executeSchedule(g, schedule, writeOk) ==
    LET g1 == controlRele([g EXCEPT !.runs = Append(@, <<"schedule", schedule.id>>)],
                          schedule.rele_id, TRUE, "schedule", writeOk)
    IN  IF g1.ret = "throw"
        THEN [g1 EXCEPT !.systemLog =
                 saveSystemLog(@, "error", "Scheduler", <<"schedule", schedule.id>>)]
        ELSE [g1 EXCEPT
                 !.timeouts = @ (+) Single(Timeout(schedule.rele_id,
                                     scheduleDuration(schedule),
                                     "schedule", schedule.id)),
                 !.systemLog =
                     saveSystemLog(@, "info", "Scheduler", <<"schedule", schedule.id>>)]

\* Scheduler.executeCondition(condition, currentValue)
executeCondition(g, condition, writeOk) ==
    LET g0 == [g EXCEPT !.runs = Append(@, <<"condition", condition.id>>)]
        g1 == IF condition.action = "activate"
              THEN LET on == controlRele(g0, condition.rele_id, TRUE,
                                         "condition", writeOk)
                   IN  IF on.ret # "throw" /\ condition.duration > 0
                       THEN [on EXCEPT !.timeouts = @ (+) Single(
                                Timeout(condition.rele_id, condition.duration,
                                        "condition", condition.id))]
                       ELSE on
              ELSE IF condition.action = "deactivate"
              THEN controlRele(g0, condition.rele_id, FALSE, "condition", writeOk)
              ELSE [g0 EXCEPT !.ret = "none"]
    IN  [g1 EXCEPT !.systemLog =
            saveSystemLog(@, IF g1.ret = "throw" THEN "error" ELSE "info",
                          "Scheduler", <<"condition", condition.id>>)]

\* The value of the sample that a condition reads
currentValue(condition, sample) ==
    IF condition.condition_type = "temperature" THEN sample.temperature
    ELSE IF condition.condition_type = "humidity" THEN sample.humidity
    ELSE 0

\* The operator switch with '==' true up to a difference of 0.5
shouldActivateInclusive(condition, value) ==
    LET threshold == condition.threshold_value
        diff == IF value >= threshold THEN value - threshold ELSE threshold - value
    IN  CASE condition.operator = ">"  -> value > threshold
          [] condition.operator = "<"  -> value < threshold
          [] condition.operator = ">=" -> value >= threshold
          [] condition.operator = "<=" -> value <= threshold
          [] condition.operator = "==" -> diff <= EqualityBand
          [] OTHER -> FALSE

\* The operator switch of evaluateCondition
shouldActivate(condition, value) ==
    LET threshold == condition.threshold_value
        diff == IF value >= threshold THEN value - threshold ELSE threshold - value
    IN  CASE condition.operator = ">"  -> value > threshold
          [] condition.operator = "<"  -> value < threshold
          [] condition.operator = ">=" -> value >= threshold
          [] condition.operator = "<=" -> value <= threshold
          [] condition.operator = "==" -> diff < EqualityBand
          [] OTHER -> FALSE

\* Scheduler.evaluateCondition(condition, temperature, humidity)
evaluateCondition(g, condition, sample, writeOk) ==
    IF shouldActivate(condition, currentValue(condition, sample))
    THEN executeCondition(g, condition, writeOk)
    ELSE g

\* The loop of checkConditions going through the map from its end
RECURSIVE evaluateAllReversed(_, _, _, _, _)
evaluateAllReversed(g, conditions, i, sample, writes) ==
    IF i > Len(conditions) THEN g
    ELSE evaluateAllReversed(
             evaluateCondition(g, conditions[Len(conditions) + 1 - i], sample,
                               writes[Len(conditions) + 1 - i]),
             conditions, i + 1, sample, writes)

\* The loop of checkConditions, left at the first rule that fails
RECURSIVE evaluateAllAborting(_, _, _, _, _)
evaluateAllAborting(g, conditions, i, sample, writes) ==
    IF i > Len(conditions) \/ g.ret \in {"throw", "false"} THEN g
    ELSE evaluateAllAborting(evaluateCondition(g, conditions[i], sample, writes[i]),
                             conditions, i + 1, sample, writes)

\* The loop of checkConditions over activeConditions[i..]; writes[i] is
\* whether rpio.write succeeds for the i-th condition.
RECURSIVE evaluateAll(_, _, _, _, _)
evaluateAll(g, conditions, i, sample, writes) ==
    IF i > Len(conditions) THEN g
    ELSE evaluateAll(evaluateCondition(g, conditions[i], sample, writes[i]),
                     conditions, i + 1, sample, writes)

----------------------------------------------------------------------------
(* The timer layer *)

\* createCronExpression reading the end of the schedule
createCronExpressionAtEnd(schedule) ==
    [minute |-> schedule.end_time[2], hour |-> schedule.end_time[1],
     dayOfWeek |-> schedule.day_of_week]

\* Scheduler.createCronExpression: `${startMinute} ${startHour} * * ${dayOfWeek}`
createCronExpression(schedule) ==
    [minute |-> schedule.start_time[2], hour |-> schedule.start_time[1],
     dayOfWeek |-> schedule.day_of_week]

\* node-cron's pattern validation: cron.schedule throws on a field out of range
validCron(expr) ==
    /\ expr.minute \in 0..59
    /\ expr.hour \in 0..23
    /\ expr.dayOfWeek \in 0..7

\* The expression of the backup task, `0 ${config.backup.frequency} * * *`
backupExpression(frequency) ==
    [minute |-> 0, hour |-> frequency, dayOfWeek |-> 0]

\* A node-cron task.  held: a map of the Scheduler still refers to it.
\* stale: it was created before the last stop().
Task(kind, schedule) ==
    [kind |-> kind, schedule |-> schedule, held |-> TRUE, stale |-> FALSE]

\* A map entry is overwritten: the task it referred to is no longer held.
Release(B, P(_)) ==
    LET img == { [r EXCEPT !.held = r.held /\ ~P(r)] : r \in DOMAIN B }
    IN  [ s \in img |->
            (IF s \in DOMAIN B /\ ~(s.held /\ P(s)) THEN B[s] ELSE 0)
          + (IF ~s.held /\ P(s) /\ [s EXCEPT !.held = TRUE] \in DOMAIN B
                THEN B[[s EXCEPT !.held = TRUE]] ELSE 0) ]

\* addSchedule with the entry set in the map before cron.schedule is called
addScheduleSetFirst(m, schedule) ==
    LET same(r) == r.kind = "schedule" /\ r.schedule.id = schedule.id
        active == { r \in m.active : r.id # schedule.id } \cup {schedule}
    IN  IF ~validCron(createCronExpression(schedule))
        THEN [active |-> active, tasks |-> m.tasks]
        ELSE [active |-> active,
              tasks |-> Release(m.tasks, same) (+) Single(Task("schedule", schedule))]

\* Scheduler.addSchedule(schedule) on <<activeSchedules, cronTasks>>
addSchedule(m, schedule) ==
    IF ~validCron(createCronExpression(schedule)) THEN m
    ELSE LET same(r) == r.kind = "schedule" /\ r.schedule.id = schedule.id
         IN  [active |-> { r \in m.active : r.id # schedule.id } \cup {schedule},
              tasks |-> Release(m.tasks, same) (+) Single(Task("schedule", schedule))]

RECURSIVE addSchedules(_, _, _)
addSchedules(m, rows, i) ==
    IF i > Len(rows) THEN m
    ELSE addSchedules(addSchedule(m, rows[i]), rows, i + 1)

\* Scheduler.addCondition(condition): Map.set keeps the position of a key
\* that is already present.
addCondition(conditions, condition) ==
    IF \E i \in 1..Len(conditions) : conditions[i].id = condition.id
    THEN [ i \in 1..Len(conditions) |->
             IF conditions[i].id = condition.id THEN condition ELSE conditions[i] ]
    ELSE Append(conditions, condition)

RECURSIVE addConditions(_, _, _)
addConditions(conditions, rows, i) ==
    IF i > Len(rows) THEN conditions
    ELSE addConditions(addCondition(conditions, rows[i]), rows, i + 1)

\* What stop() does to the node-cron tasks: task.stop() for the tasks of
\* scheduledTasks, and nothing for the tasks of activeSchedules.
stopTasks(B) ==
    LET stopped(r) == r.held /\ r.kind \in {"backup", "logCleanup"}
        rest == BagFilter(B, LAMBDA r : ~stopped(r))
    IN  MarkStale(Release(rest, LAMBDA r : TRUE))

\* A bag as a sequence, one entry per copy
RECURSIVE BagToSeq(_)
BagToSeq(B) ==
    IF DOMAIN B = {} THEN << >>
    ELSE LET r == CHOOSE x \in DOMAIN B : TRUE
         IN  << r >> \o BagToSeq(B (-) Single(r))

----------------------------------------------------------------------------
(* State *)

NoEvent ==
    [op |-> "construct", stale |-> FALSE, sample |-> NoSample, sampled |-> FALSE,
     sensor |-> "none", dbOk |-> TRUE, failedBefore |-> 0,
     at |-> << >>, origin |-> << >>, on |-> FALSE, calls |-> << >>,
     begun |-> << >>, runs |-> << >>]

Event(op, stale, g) ==
    [op |-> op, stale |-> stale, sample |-> NoSample, sampled |-> FALSE,
     sensor |-> "none", dbOk |-> TRUE, failedBefore |-> 0,
     at |-> << >>, origin |-> << >>, on |-> FALSE, calls |-> g.calls,
     begun |-> g.begun, runs |-> g.runs]

\* The executor state at the start of a handler
Executor ==
    [releStates |-> releStates, pins |-> pins, timeouts |-> timeouts,
     systemLog |-> << >>, releStateLog |-> << >>,
     calls |-> << >>, begun |-> << >>, runs |-> << >>, ret |-> "none"]

\* The handler leaves the executor state g
Commit(g) ==
    /\ releStates' = g.releStates
    /\ pins' = g.pins
    /\ timeouts' = g.timeouts
    /\ systemLog' = g.systemLog
    /\ releStateLog' = g.releStateLog

\* After `new Scheduler()`: GPIOController.init has written the initial
\* level to every pin, and init() is suspended at its first await.
Init ==
    /\ backupFrequency \in BackupFrequencies
    /\ dbSchedules \in ScheduleStores
    /\ dbConditions \in ConditionStores
    /\ activeSchedules = {}
    /\ activeConditions = << >>
    /\ scheduledTasks = {}
    /\ isRunning = FALSE
    /\ pendingInit = [loadSchedules |-> 1, loadConditions |-> 0]
    /\ cronTasks = EmptyBag
    /\ timeouts = EmptyBag
    /\ intervals = EmptyBag
    /\ releStates = [r \in Reles |-> FALSE]
    /\ appReleStates = [r \in Reles |-> FALSE]
    /\ pins = [r \in Reles |-> pinState(FALSE)]
    /\ dht11 = [lastReading |-> NoSample, recent |-> FALSE]
    /\ systemLog = << LogEntry("info", "GPIOController", <<"init">>) >>
    /\ releStateLog = [r \in Reles |-> [rele_id |-> r, state |-> FALSE, reason |-> "init"]]
    /\ calls = 0
    /\ failedReads = 0
    /\ event = NoEvent

----------------------------------------------------------------------------
(* Lifecycle: stop(), init(), restart() *)

\* stop() that also switches every relay off
StopBodyRelaysOff ==
    /\ cronTasks' = stopTasks(cronTasks)
    /\ activeSchedules' = {}
    /\ activeConditions' = << >>
    /\ scheduledTasks' = {}
    /\ isRunning' = FALSE
    /\ systemLog' = saveSystemLog(<< >>, "info", "Scheduler", <<"stop">>)
    /\ releStateLog' = << >>
    \* the timers below are not touched; stale only records that they were
    \* created before this stop()
    /\ timeouts' = MarkStale(timeouts)
    /\ intervals' = MarkStale(intervals)
    /\ releStates' = [r \in Reles |-> FALSE]
    /\ pins' = [r \in Reles |-> pinState(FALSE)]

\* The synchronous body of Scheduler.stop()
StopBody ==
    /\ cronTasks' = stopTasks(cronTasks)
    /\ activeSchedules' = {}
    /\ activeConditions' = << >>
    /\ scheduledTasks' = {}
    /\ isRunning' = FALSE
    /\ systemLog' = saveSystemLog(<< >>, "info", "Scheduler", <<"stop">>)
    /\ releStateLog' = << >>
    \* the timers below are not touched; stale only records that they were
    \* created before this stop()
    /\ timeouts' = MarkStale(timeouts)
    /\ intervals' = MarkStale(intervals)
    \* no controlRele call: the relays stay as they are
    /\ UNCHANGED << releStates, pins >>

\* scheduler.stop()
Stop ==
    /\ calls < MaxCalls
    /\ calls' = calls + 1
    /\ StopBody
    /\ event' = [NoEvent EXCEPT !.op = "stop"]
    /\ UNCHANGED << appReleStates, backupFrequency, dbSchedules, dbConditions, pendingInit,
                    dht11, failedReads >>

\* scheduler.restart() up to the first await of its init()
Restart ==
    /\ calls < MaxCalls
    /\ calls' = calls + 1
    /\ StopBody
    /\ pendingInit' = [pendingInit EXCEPT !.loadSchedules = @ + 1]
    /\ event' = [NoEvent EXCEPT !.op = "restart"]
    /\ UNCHANGED << appReleStates, backupFrequency, dbSchedules, dbConditions,
                    dht11, failedReads >>

\* getActiveSchedules settles: loadActiveSchedules runs addSchedule for every
\* row (or catches the rejection), and init() goes on to await
\* getActiveConditions.
LoadActiveSchedules(dbOk) ==
    /\ pendingInit.loadSchedules > 0
    /\ LET m == IF dbOk
                THEN addSchedules([active |-> activeSchedules, tasks |-> cronTasks],
                                  getActiveRows(dbSchedules), 1)
                ELSE [active |-> activeSchedules, tasks |-> cronTasks]
       IN  /\ activeSchedules' = m.active
           /\ cronTasks' = m.tasks
    /\ pendingInit' = [loadSchedules |-> pendingInit.loadSchedules - 1,
                       loadConditions |-> pendingInit.loadConditions + 1]
    /\ systemLog' = << >>
    /\ releStateLog' = << >>
    /\ event' = [NoEvent EXCEPT !.op = "loadActiveSchedules", !.dbOk = dbOk]
    /\ UNCHANGED << appReleStates, backupFrequency, dbSchedules, dbConditions, activeConditions,
                    scheduledTasks, isRunning, timeouts, intervals,
                    releStates, pins, dht11, calls, failedReads >>

\* getActiveConditions settles: loadActiveConditions runs addCondition for
\* every row, then init() runs startScheduledTasks, startConditionChecker and
\* sets isRunning; a throw of cron.schedule in startScheduledTasks sends it
\* to the catch block instead.
LoadActiveConditions(dbOk) ==
    /\ pendingInit.loadConditions > 0
    /\ pendingInit' = [pendingInit EXCEPT !.loadConditions = @ - 1]
    /\ activeConditions' = IF dbOk
                           THEN addConditions(activeConditions,
                                              getActiveRows(dbConditions), 1)
                           ELSE activeConditions
    /\ IF validCron(backupExpression(backupFrequency))
       THEN /\ cronTasks' = Release(cronTasks,
                               LAMBDA r : r.kind \in {"backup", "logCleanup"})
                            (+) Single(Task("backup", NoSchedule))
                            (+) Single(Task("logCleanup", NoSchedule))
            /\ scheduledTasks' = scheduledTasks \cup {"backup", "logCleanup"}
            /\ intervals' = intervals (+)
                    Single([remaining |-> PollSeconds, stale |-> FALSE])
            /\ isRunning' = TRUE
            /\ systemLog' = saveSystemLog(<< >>, "info", "Scheduler", <<"init">>)
       ELSE /\ systemLog' = saveSystemLog(<< >>, "error", "Scheduler", <<"init">>)
            /\ UNCHANGED << cronTasks, scheduledTasks, intervals, isRunning >>
    /\ releStateLog' = << >>
    /\ event' = [NoEvent EXCEPT !.op = "loadActiveConditions", !.dbOk = dbOk]
    /\ UNCHANGED << appReleStates, backupFrequency, dbSchedules, dbConditions, activeSchedules,
                    timeouts, releStates, pins, dht11, calls, failedReads >>

\* Scheduler.getStatus(): reads the sizes of the three maps and isRunning
getStatus ==
    [isRunning |-> isRunning,
     activeSchedules |-> Cardinality(activeSchedules),
     activeConditions |-> Len(activeConditions),
     scheduledTasks |-> Cardinality(scheduledTasks)]

----------------------------------------------------------------------------
(* Control surface: the rule and relay handlers of app.js *)

\* The rows of getActiveSchedules with one more row: ORDER BY day_of_week,
\* start_time
InsertSchedule(rows, row) ==
    LET before == SelectSeq(rows, LAMBDA r :
                     \/ r.day_of_week < row.day_of_week
                     \/ /\ r.day_of_week = row.day_of_week
                        /\ moment(r.start_time) <= moment(row.start_time))
        after == SelectSeq(rows, LAMBDA r :
                     \/ r.day_of_week > row.day_of_week
                     \/ /\ r.day_of_week = row.day_of_week
                        /\ moment(r.start_time) > moment(row.start_time))
    IN  before \o << row >> \o after

\* app.js, POST /api/rele/control with a relay id and a boolean state:
\* controlRele of the GPIOController that initializeSystem created
ManualControl(releId, state) ==
    /\ calls < MaxCalls
    /\ calls' = calls + 1
    /\ LET g == controlRele([Executor EXCEPT !.releStates = appReleStates],
                            releId, state, "manual", TRUE)
       IN  /\ appReleStates' = g.releStates
           /\ pins' = g.pins
           /\ systemLog' = g.systemLog
           /\ releStateLog' = g.releStateLog
           /\ event' = Event("manual", FALSE, g)
    /\ UNCHANGED << backupFrequency, dbSchedules, dbConditions, activeSchedules,
                    activeConditions, scheduledTasks, isRunning, pendingInit,
                    cronTasks, timeouts, intervals, releStates, dht11,
                    failedReads >>

\* GPIOController.getAllReleStates() of GET /api/rele/status
getAllReleStates == [r \in Reles |-> appReleStates[r]]

\* app.js, POST /api/schedule: saveSchedule resolves, then scheduler.restart()
PostSchedule(posted) ==
    /\ calls < MaxCalls
    /\ calls' = calls + 1
    /\ \A i \in 1..Len(dbSchedules) : dbSchedules[i].id # SavedSchedule.id
    /\ dbSchedules' = InsertSchedule(dbSchedules,
                                     [posted EXCEPT !.id = SavedSchedule.id])
    /\ StopBody
    /\ pendingInit' = [pendingInit EXCEPT !.loadSchedules = @ + 1]
    /\ event' = [NoEvent EXCEPT !.op = "postSchedule"]
    /\ UNCHANGED << appReleStates, backupFrequency, dbConditions, dht11,
                    failedReads >>

\* app.js, POST /api/condition: saveCondition resolves, then scheduler.restart()
PostCondition(posted) ==
    /\ calls < MaxCalls
    /\ calls' = calls + 1
    /\ \A i \in 1..Len(dbConditions) : dbConditions[i].id # SavedCondition.id
    /\ dbConditions' = Append(dbConditions,
                              [posted EXCEPT !.id = SavedCondition.id])
    /\ StopBody
    /\ pendingInit' = [pendingInit EXCEPT !.loadSchedules = @ + 1]
    /\ event' = [NoEvent EXCEPT !.op = "postCondition"]
    /\ UNCHANGED << appReleStates, backupFrequency, dbSchedules, dht11,
                    failedReads >>

\* app.development.js, POST /api/schedule: saveSchedule resolves, then
\* scheduler.addSchedule(req.body)
PostScheduleDevelopment(posted) ==
    /\ calls < MaxCalls
    /\ calls' = calls + 1
    /\ \A i \in 1..Len(dbSchedules) : dbSchedules[i].id # SavedSchedule.id
    /\ dbSchedules' = InsertSchedule(dbSchedules,
                                     [posted EXCEPT !.id = SavedSchedule.id])
    /\ LET m == addSchedule([active |-> activeSchedules, tasks |-> cronTasks],
                            posted)
       IN  /\ activeSchedules' = m.active
           /\ cronTasks' = m.tasks
    /\ systemLog' = << >>
    /\ releStateLog' = << >>
    /\ event' = [NoEvent EXCEPT !.op = "postScheduleDevelopment"]
    /\ UNCHANGED << appReleStates, backupFrequency, dbConditions, activeConditions,
                    scheduledTasks, isRunning, pendingInit, timeouts, intervals,
                    releStates, pins, dht11, failedReads >>

\* app.development.js, POST /api/condition: saveCondition resolves, then
\* scheduler.addCondition(req.body)
PostConditionDevelopment(posted) ==
    /\ calls < MaxCalls
    /\ calls' = calls + 1
    /\ \A i \in 1..Len(dbConditions) : dbConditions[i].id # SavedCondition.id
    /\ dbConditions' = Append(dbConditions,
                              [posted EXCEPT !.id = SavedCondition.id])
    /\ activeConditions' = addCondition(activeConditions, posted)
    /\ systemLog' = << >>
    /\ releStateLog' = << >>
    /\ event' = [NoEvent EXCEPT !.op = "postConditionDevelopment"]
    /\ UNCHANGED << appReleStates, backupFrequency, dbSchedules, activeSchedules, cronTasks,
                    scheduledTasks, isRunning, pendingInit, timeouts, intervals,
                    releStates, pins, dht11, failedReads >>

----------------------------------------------------------------------------
(* Timer callbacks *)

\* The callbacks of the tasks[i..]; writes[i] is whether rpio.write succeeds
\* in the i-th.
RECURSIVE executeAll(_, _, _, _)
executeAll(g, tasks, i, writes) ==
    IF i > Len(tasks) THEN g
    ELSE executeAll(executeSchedule(g, tasks[i].schedule, writes[i]),
                    tasks, i + 1, writes)

\* (outcomes, here and below: whether rpio.write may fail.)
\* The wall clock reaches the minute of expr: every live task of a schedule
\* with that expression runs its callback, executeSchedule(schedule).  The
\* rows of a store are a day or more apart and no interval is longer than a
\* day, so the deactivations of an earlier occurrence have fired by then.
CronOccurrence(expr, distinct, outcomes) ==
    LET due == BagToSeq(BagFilter(cronTasks,
                   LAMBDA r : r.kind = "schedule"
                              /\ createCronExpression(r.schedule) = expr))
    IN  /\ Len(due) > 0
        /\ \A timer \in DOMAIN timeouts : timer.origin[1] # "schedule"
        /\ \E writes \in [1..Len(due) -> outcomes] :
             LET g == executeAll(Executor, due, 1, writes)
             IN  /\ WithinBounds(g.timeouts, distinct)
                 /\ Commit(g)
                 /\ event' = [Event("cron", \E i \in 1..Len(due) : due[i].stale, g)
                                 EXCEPT !.at = << expr >>]
        /\ UNCHANGED << appReleStates, backupFrequency, dbSchedules, dbConditions, activeSchedules,
                        activeConditions, scheduledTasks, isRunning, pendingInit,
                        cronTasks, intervals, dht11, calls, failedReads >>

\* A pending deactivation comes due: controlRele(rele_id, false, ..)
TimeoutFire(timer, outcomes) ==
    /\ timer \in DOMAIN timeouts
    /\ timer.remaining = 0
    /\ \E writeOk \in outcomes :
         LET g == controlRele([Executor EXCEPT !.timeouts = @ (-) Single(timer)],
                              timer.rele_id, FALSE, "timeout", writeOk)
         IN  /\ Commit(g)
             /\ event' = [Event("timeout", timer.stale, g)
                             EXCEPT !.origin = timer.origin,
                                    !.on = releStates[timer.rele_id]]
    /\ UNCHANGED << appReleStates, backupFrequency, dbSchedules, dbConditions, activeSchedules,
                    activeConditions, scheduledTasks, isRunning, pendingInit,
                    cronTasks, intervals, dht11, calls, failedReads >>

\* A polling loop ticks: checkConditions().  readings: what the sensor may
\* give (NoSample: nothing valid); outcomes: whether the try block of
\* readDHT11 and rpio.write may fail.
IntervalFire(timer, distinct, readings, outcomes) ==
    /\ timer \in DOMAIN intervals
    /\ timer.remaining = 0
    /\ intervals' = (intervals (-) Single(timer))
                    (+) Single([timer EXCEPT !.remaining = PollSeconds])
    /\ \E reading \in readings, readOk \in outcomes,
          writes \in [1..Len(activeConditions) -> outcomes] :
         LET valid == reading # NoSample
             sensed == DHT11Sensor_read(dht11, reading, valid)
             read == readDHT11(<< >>, sensed[1], readOk)
             g0 == [Executor EXCEPT !.systemLog = read[3]]
             g == IF read[2]
                  THEN evaluateAll(g0, activeConditions, 1, read[1], writes)
                  ELSE g0
         IN  /\ WithinBounds(g.timeouts, distinct)
             \* a write that is not made is not an input
             /\ \A i \in 1..Len(activeConditions) :
                   writes[i] \/ ( /\ read[2]
                                  /\ shouldActivate(activeConditions[i],
                                        currentValue(activeConditions[i], read[1])) )
             /\ Commit(g)
             /\ failedReads' = IF read[2] THEN 0
                                ELSE IF failedReads < MaxFailedReads
                                     THEN failedReads + 1 ELSE failedReads
             /\ dht11' = sensed[2]
             /\ event' = [Event("poll", timer.stale, g)
                             EXCEPT !.sample = read[1], !.sampled = read[2],
                                    !.sensor =
                                       IF dht11.recent /\ dht11.lastReading # NoSample
                                       THEN "recent"
                                       ELSE IF valid THEN "read" ELSE "failed",
                                    !.failedBefore = failedReads]
    /\ UNCHANGED << appReleStates, backupFrequency, dbSchedules, dbConditions, activeSchedules,
                    activeConditions, scheduledTasks, isRunning, pendingInit,
                    cronTasks, calls >>

\* A live system task runs: createBackup() or cleanupOldLogs()
SystemTask(task) ==
    /\ task \in DOMAIN cronTasks
    /\ task.kind \in {"backup", "logCleanup"}
    /\ systemLog' = saveSystemLog(<< >>, "info", "Scheduler", <<task.kind>>)
    /\ releStateLog' = << >>
    /\ event' = [NoEvent EXCEPT !.op = task.kind, !.stale = task.stale]
    /\ UNCHANGED << appReleStates, backupFrequency, dbSchedules, dbConditions, activeSchedules,
                    activeConditions, scheduledTasks, isRunning, pendingInit,
                    cronTasks, timeouts, intervals, releStates, pins, dht11, calls, failedReads >>

\* An INSERT that the last handler issued fails: the callback of db.run
\* rejects the promise of saveSystemLog or saveReleState.  No caller awaits
\* it or attaches a catch and the process has no 'unhandledRejection'
\* listener, so Node (16 or later, which the installer requires) raises it as
\* an uncaught exception and the process exits: its timers and maps are gone,
\* the pins keep their level.
UnhandledRejection ==
    /\ event.op \in {"cron", "poll", "timeout"}
    /\ systemLog # << >>
    /\ cronTasks' = EmptyBag
    /\ timeouts' = EmptyBag
    /\ intervals' = EmptyBag
    /\ activeSchedules' = {}
    /\ activeConditions' = << >>
    /\ scheduledTasks' = {}
    /\ isRunning' = FALSE
    /\ pendingInit' = [loadSchedules |-> 0, loadConditions |-> 0]
    /\ systemLog' = << >>
    /\ releStateLog' = << >>
    /\ event' = [NoEvent EXCEPT !.op = "unhandledRejection"]
    /\ UNCHANGED << appReleStates, backupFrequency, dbSchedules, dbConditions,
                    releStates, pins, dht11, calls, failedReads >>

\* Every timer of the bag B is d seconds nearer
Elapse(B, d) ==
    LET later(r) == [r EXCEPT !.remaining = @ - d]
        img == { later(r) : r \in DOMAIN B }
    IN  [ s \in img |-> B[[s EXCEPT !.remaining = @ + d]] ]

\* Time passes until the next timer is due; a due timer fires first.
Advance ==
    LET lefts == { timer.remaining : timer \in DOMAIN timeouts }
                 \cup { timer.remaining : timer \in DOMAIN intervals }
    IN  /\ lefts # {}
        /\ Min(lefts) > 0
        /\ timeouts' = Elapse(timeouts, Min(lefts))
        /\ intervals' = Elapse(intervals, Min(lefts))
        /\ dht11' = [dht11 EXCEPT !.recent = @ /\ Min(lefts) < MinReadSeconds]
        /\ systemLog' = << >>
        /\ releStateLog' = << >>
        /\ event' = [NoEvent EXCEPT !.op = "advance"]
        /\ UNCHANGED << appReleStates, backupFrequency, dbSchedules, dbConditions, activeSchedules,
                        activeConditions, scheduledTasks, isRunning, pendingInit,
                        cronTasks, releStates, pins, calls, failedReads >>

Expressions == { createCronExpression(r.schedule) : r \in DOMAIN cronTasks }

\* stop(), restart() and the POST handlers called at any moment; the rule
\* store answers, the sensor reads and the pins are written
Next ==
    \/ Stop
    \/ Restart
    \/ \E posted \in PostedSchedules : PostSchedule(posted)
    \/ \E posted \in PostedConditions : PostCondition(posted)
    \/ \E posted \in PostedSchedules : PostScheduleDevelopment(posted)
    \/ \E posted \in PostedConditions : PostConditionDevelopment(posted)
    \/ \E releId \in Reles, state \in BOOLEAN : ManualControl(releId, state)
    \/ LoadActiveSchedules(TRUE)
    \/ LoadActiveConditions(TRUE)
    \/ \E expr \in Expressions : CronOccurrence(expr, MaxDistinct, {TRUE})
    \/ \E timer \in DOMAIN timeouts : TimeoutFire(timer, {TRUE})
    \/ \E timer \in DOMAIN intervals :
          IntervalFire(timer, MaxDistinct, Samples, {TRUE})
    \/ \E task \in DOMAIN cronTasks : SystemTask(task)
    \/ Advance

\* The engine left alone after construction: no stop() and no restart();
\* the rule store may fail to answer, and so may the sensor, the pins and
\* the audit tables
NextEngine ==
    \/ \E dbOk \in BOOLEAN : LoadActiveSchedules(dbOk)
    \/ \E dbOk \in BOOLEAN : LoadActiveConditions(dbOk)
    \/ \E expr \in Expressions : CronOccurrence(expr, MaxTimeouts, BOOLEAN)
    \/ \E timer \in DOMAIN timeouts : TimeoutFire(timer, BOOLEAN)
    \/ \E timer \in DOMAIN intervals :
          IntervalFire(timer, MaxTimeouts, Samples \cup {NoSample}, BOOLEAN)
    \/ \E task \in DOMAIN cronTasks : SystemTask(task)
    \/ UnhandledRejection
    \/ Advance

\* The engine with a store of ComparisonStores and a valid backup hour
InitCompare ==
    /\ backupFrequency = 6
    /\ dbSchedules \in ScheduleStores
    /\ dbConditions \in ComparisonStores
    /\ activeSchedules = {}
    /\ activeConditions = << >>
    /\ scheduledTasks = {}
    /\ isRunning = FALSE
    /\ pendingInit = [loadSchedules |-> 1, loadConditions |-> 0]
    /\ cronTasks = EmptyBag
    /\ timeouts = EmptyBag
    /\ intervals = EmptyBag
    /\ releStates = [r \in Reles |-> FALSE]
    /\ appReleStates = [r \in Reles |-> FALSE]
    /\ pins = [r \in Reles |-> pinState(FALSE)]
    /\ dht11 = [lastReading |-> NoSample, recent |-> FALSE]
    /\ systemLog = << LogEntry("info", "GPIOController", <<"init">>) >>
    /\ releStateLog = [r \in Reles |-> [rele_id |-> r, state |-> FALSE, reason |-> "init"]]
    /\ calls = 0
    /\ failedReads = 0
    /\ event = NoEvent

\* The engine left alone, with the readings of ComparisonSamples and nothing
\* failing
NextCompare ==
    \/ LoadActiveSchedules(TRUE)
    \/ LoadActiveConditions(TRUE)
    \/ \E expr \in Expressions : CronOccurrence(expr, MaxTimeouts, {TRUE})
    \/ \E timer \in DOMAIN timeouts : TimeoutFire(timer, {TRUE})
    \/ \E timer \in DOMAIN intervals :
          IntervalFire(timer, MaxTimeouts, ComparisonSamples, {TRUE})
    \/ Advance

Spec == Init /\ [][Next]_vars

SpecCompare == InitCompare /\ [][NextCompare]_vars

SpecEngine == Init /\ [][NextEngine]_vars

----------------------------------------------------------------------------
(* Properties *)

\* Deactivations pending for relay r
PendingDeactivations(r) ==
    BagCardinality(BagFilter(timeouts, LAMBDA timer : timer.rele_id = r))

\* Live triggers of schedule rule id
Triggers(id) ==
    BagCardinality(BagFilter(cronTasks,
        LAMBDA r : r.kind = "schedule" /\ r.schedule.id = id))

ScheduleTriggers ==
    BagFilter(cronTasks, LAMBDA r : r.kind = "schedule")

\* init() is not in progress
Settled == pendingInit.loadSchedules = 0 /\ pendingInit.loadConditions = 0

\* C1: at any moment every actuator has at most one pending deactivation;
\* scheduling a deactivation for an actuator that has one replaces it.
C1_AtMostOnePendingDeactivation ==
    \A r \in Reles : PendingDeactivations(r) <= 1

\* C2: stop() cancels every schedule trigger: when stop() returns no
\* schedule trigger is live, and no trigger created before a stop() fires.
C2_StopCancelsScheduleTriggers ==
    /\ event.op = "stop" => ScheduleTriggers = EmptyBag
    /\ ~(event.op = "cron" /\ event.stale)

\* C3: stop() cancels every pending deactivation: when stop() returns none
\* is pending, and no deactivation armed before a stop() switches a relay.
C3_StopCancelsPendingDeactivations ==
    /\ event.op = "stop" => timeouts = EmptyBag
    /\ ~(event.op = "timeout" /\ event.stale)

\* C4: restart() is idempotent on the live timers: once init() has run to
\* its end there is one trigger per schedule rule of the store at most and
\* one polling loop at most, and an occurrence runs a rule once.
C4_RestartIdempotent ==
    /\ Settled =>
          /\ \A i \in 1..Len(dbSchedules) : Triggers(dbSchedules[i].id) <= 1
          /\ BagCardinality(intervals) <= 1
    /\ event.op = "cron" =>
          \A i, j \in 1..Len(event.runs) : event.runs[i] = event.runs[j] => i = j

\* C5: the polling timer is owned and cancelled: at most one polling loop is
\* live at any time, none is live when stop() returns, and no loop started
\* before a stop() ticks.
C5_PollingLoopOwned ==
    /\ BagCardinality(intervals) <= 1
    /\ event.op = "stop" => intervals = EmptyBag
    /\ ~(event.op = "poll" /\ event.stale)

\* C6: when a condition rule deactivates an actuator, the deactivation
\* pending for that actuator is cleared: after a poll whose last switch of
\* relay r was a successful OFF, nothing is pending for r.
C6_DeactivateClearsPending ==
    event.op = "poll" =>
        \A i \in 1..Len(event.calls) :
            ( /\ ~event.calls[i].state
              /\ event.calls[i].ret = "true"
              /\ \A j \in (i + 1)..Len(event.calls) :
                    event.calls[j].rele_id # event.calls[i].rele_id )
            => PendingDeactivations(event.calls[i].rele_id) = 0

\* The schedule rule of the store with the given id
ScheduleRule(id) ==
    CHOOSE s \in { dbSchedules[i] : i \in 1..Len(dbSchedules) } : s.id = id

\* a is earlier in the day than b (times as <<hour, minute>>)
Earlier(a, b) == a[1] < b[1] \/ (a[1] = b[1] /\ a[2] < b[2])

\* Seconds from a to b on the same day
Span(a, b) == ((b[1] - a[1]) * 60 + (b[2] - a[2])) * 60

\* T2 - T1 when T2 > T1, (24h - T1) + T2 when T2 <= T1
DurationWrappingEqual(T1, T2) ==
    IF Earlier(T1, T2) THEN Span(T1, T2) ELSE SecondsPerDay + Span(T1, T2)

\* T2 - T1 when T2 >= T1, (24h - T1) + T2 when T2 < T1
DurationWrappingEarlier(T1, T2) ==
    IF Earlier(T2, T1) THEN SecondsPerDay + Span(T1, T2) ELSE Span(T1, T2)

\* Right after an occurrence, every rule it ran has a deactivation pending
\* that is due D(start_time, end_time) seconds later, and so has every
\* deactivation armed by a schedule.
ArmedAfter(D(_, _)) ==
    event.op = "cron" =>
        /\ \A i \in 1..Len(event.runs) :
              LET s == ScheduleRule(event.runs[i][2])
              IN  \E timer \in DOMAIN timeouts :
                     /\ timer.origin = event.runs[i]
                     /\ timer.rele_id = s.rele_id
                     /\ timer.remaining = D(s.start_time, s.end_time)
        /\ \A timer \in DOMAIN timeouts :
              timer.origin[1] = "schedule" =>
                 LET s == ScheduleRule(timer.origin[2])
                 IN  timer.remaining = D(s.start_time, s.end_time)

RECURSIVE StateAfter(_, _, _)
StateAfter(cs, r, before) ==
    IF cs = << >> THEN before
    ELSE StateAfter(Tail(cs), r,
                    IF Head(cs).rele_id = r /\ Head(cs).ret = "true"
                    THEN Head(cs).state ELSE before)

\* The rules a poll with this sample has to run, in the order of the map
DueConditions(conditions, sample) ==
    LET due == SelectSeq(conditions,
                   LAMBDA c : shouldActivate(c, currentValue(c, sample)))
    IN  [ i \in 1..Len(due) |-> << "condition", due[i].id >> ]

Handlers == {"cron", "poll", "timeout"}

\* C8: a failed write leaves releStates as it was (releStates holds the
\* confirmed writes only), controlRele returns false, the write is made once
\* per rule run, and the poll goes on to run every rule that is due.
C8_FailedWriteLeavesState ==
    [][ event'.op \in Handlers =>
          /\ \A r \in Reles :
                releStates'[r] = StateAfter(event'.calls, r, releStates[r])
          /\ Len(event'.calls) =
                IF event'.op = "timeout" THEN 1 ELSE Len(event'.runs)
          /\ (event'.op = "poll" /\ event'.sampled) =>
                event'.runs = DueConditions(activeConditions, event'.sample) ]_vars

\* A poll in which the write of the first rule fails and the second rule,
\* on the same relay, is run and its write succeeds.
C8_Witness ==
    /\ event.op = "poll"
    /\ Len(event.calls) = 2
    /\ event.calls[1] = [rele_id |-> 1, state |-> TRUE, ret |-> "false"]
    /\ event.calls[2] = [rele_id |-> 1, state |-> FALSE, ret |-> "true"]
    /\ ~releStates[1]

\* The rows of system_logs that controlRele wrote
TransitionEntries(log) ==
    SelectSeq(log, LAMBDA e : e.source = "GPIOController" /\ e.message[1] = "rele")

SensorError == LogEntry("error", "GPIOController", <<"DHT11">>)

C11_NoStaleSample ==
    (event.op = "poll" /\ event.sensor = "failed") =>
        /\ ~event.sampled
        /\ event.runs = << >>

\* The condition rule of the store with the given id
ConditionRule(id) ==
    CHOOSE c \in { dbConditions[i] : i \in 1..Len(dbConditions) } : c.id = id

\* The metrics of a sample
Metrics == {"temperature", "humidity"}

\* C12: a condition whose condition_type is not a metric of the sample has no
\* side effects: no poll runs executeCondition for it.
C12_UnknownMetricNoEffect ==
    event.op = "poll" =>
        \A i \in 1..Len(event.runs) :
            ConditionRule(event.runs[i][2]).condition_type \in Metrics

\* C13: a rule that fails in a poll (controlRele throws on its relay id, or
\* the write fails) does not end the poll: the poll runs every rule of the
\* map that is due for the sample, in the order of the map, the rules after
\* the failed one included.
C13_FailureDoesNotAbortCycle ==
    (event.op = "poll" /\ event.sampled) =>
        /\ event.runs = DueConditions(activeConditions, event.sample)
        /\ Len(event.calls) = Len(event.runs)

\* A poll in which controlRele throws for the first rule and the write of
\* the second fails, and the third rule switches its relay.
C13_Witness ==
    /\ event.op = "poll"
    /\ Len(event.calls) = 3
    /\ event.calls[1].ret = "throw"
    /\ event.calls[2].ret = "false"
    /\ event.calls[3] = [rele_id |-> 2, state |-> FALSE, ret |-> "true"]

\* C14: when the rule store does not answer during init(), the service does
\* not become running and no polling loop is started.
C14_LoadFailureBlocksRunning ==
    (event.op = "loadActiveConditions" /\ ~event.dbOk) =>
        /\ ~isRunning
        /\ intervals = EmptyBag

\* The rows of the schedule store
StoredSchedules == { dbSchedules[i] : i \in 1..Len(dbSchedules) }

\* C15: under the shipped configuration, init() with the rules loaded ends
\* with isRunning = true, the polling loop started, one trigger per loaded
\* schedule and the system tasks registered.
C15_InitReachesRunning ==
    ( /\ event.op = "loadActiveConditions"
      /\ event.dbOk
      /\ activeSchedules = StoredSchedules
      /\ backupFrequency = ShippedBackupFrequency )
    => /\ isRunning
       /\ BagCardinality(intervals) = 1
       /\ \A s \in StoredSchedules : Triggers(s.id) = 1
       /\ scheduledTasks # {}

\* The hours of the day at which a task with this expression runs
HoursOf(expr) == IF validCron(expr) THEN {expr.hour} ELSE {}

\* '0 2 * * *' for 24, '0 2,14 * * *' for 12, '0 */6 * * *' for 6,
\* '0 * * * *' for 1, '0 2 * * *' for any other frequency
ConvertedBackupHours(frequency) ==
    CASE frequency = 24 -> {2}
      [] frequency = 12 -> {2, 14}
      [] frequency = 6  -> {0, 6, 12, 18}
      [] frequency = 1  -> 0..23
      [] OTHER -> {2}

\* C16: startScheduledTasks turns the configured backup frequency into a
\* valid cron expression, the one of the frequency mapping, and registers
\* the backup task; frequency 24 raises no invalid-hour error.
C16_BackupFrequencyConverted ==
    event.op = "loadActiveConditions" =>
        /\ validCron(backupExpression(backupFrequency))
        /\ HoursOf(backupExpression(backupFrequency))
              = ConvertedBackupHours(backupFrequency)
        /\ "backup" \in scheduledTasks

\* The start time is an hour 0..23 and a minute 0..59
ValidStart(schedule) ==
    schedule.start_time[1] \in 0..23 /\ schedule.start_time[2] \in 0..59

C18_TriggerAtStart ==
    event.op = "cron" =>
        \A i \in 1..Len(event.runs) :
            LET s == ScheduleRule(event.runs[i][2])
            IN  event.at = << [minute |-> s.start_time[2],
                               hour |-> s.start_time[1],
                               dayOfWeek |-> s.day_of_week] >>

\* Monday 08:00 comes, '0 8 * * 1': schedule 1 runs.
C18_Witness ==
    /\ event.op = "cron"
    /\ event.at = << [minute |-> 0, hour |-> 8, dayOfWeek |-> 1] >>
    /\ event.runs = << <<"schedule", 1>> >>

\* The rows of the condition store
StoredConditions == { dbConditions[i] : i \in 1..Len(dbConditions) }

\* C19: rules reach the live rule set only by being loaded from the store
\* by init(): every active schedule and every active condition is a row of
\* the store as init() loads it; no handler of the control surface puts a
\* rule of its own into the maps.
C19_LiveRulesAreLoadedRules ==
    /\ activeSchedules \subseteq StoredSchedules
    /\ \A i \in 1..Len(activeConditions) : activeConditions[i] \in StoredConditions

\* C20: the level that the control surface reports for a relay is the level
\* of the last confirmed write to that relay, whoever commanded it.
C20_ReportedLevelIsLastConfirmed ==
    \A r \in Reles : pinState(getAllReleStates[r]) = pins[r]

\* The calls of a handler that switched a relay
Transitions(cs) == SelectSeq(cs, LAMBDA c : c.ret = "true")

\* C21 as stated: the transitions of one actuator never interleave: the
\* write, the state update and the log append of a transition are complete
\* before the next transition of that actuator begins.
C21_LogAppendComplete ==
    event.op \in Handlers =>
        \A i \in 1..Len(event.begun) : event.begun[i] = 0

\* C21, amended: the write and the state update of a transition are complete,
\* and its log rows are issued, before the next transition of that actuator
\* begins: the pin and releStates agree after every handler, releStates is
\* the state of the transition executed last, and the rows of rele_states are
\* issued in the order of the transitions.  The INSERTs are not awaited.
C21_TransitionsSerialized ==
    event.op \in Handlers =>
        /\ \A r \in Reles :
              /\ pins[r] = pinState(releStates[r])
              /\ releStates[r] = StateAfter(event.calls, r, releStates[r])
        /\ LET done == Transitions(event.calls)
           IN  /\ Len(releStateLog) = Len(done)
               /\ \A i \in 1..Len(done) :
                     /\ releStateLog[i].rele_id = done[i].rele_id
                     /\ releStateLog[i].state = done[i].state

\* A poll switches relay 1 ON and then OFF while a deactivation of relay 1 is
\* due at the same moment: the relay is OFF, and the second transition began
\* with the row of the first in flight.
C21_Witness ==
    /\ event.op = "poll"
    /\ Len(event.calls) = 2
    /\ event.calls[1] = [rele_id |-> 1, state |-> TRUE, ret |-> "true"]
    /\ event.calls[2] = [rele_id |-> 1, state |-> FALSE, ret |-> "true"]
    /\ event.begun = << 0, 1 >>
    /\ ~releStates[1]
    /\ pins[1] = pinState(FALSE)
    /\ \E timer \in DOMAIN timeouts : timer.rele_id = 1 /\ timer.remaining = 0

\* C22: a failed audit-log write never stops the engine: the failure is
\* swallowed, the transition whose log write failed keeps its effect, and
\* the triggers, the polling loop and the pending deactivations stay live.
C22_LogFailureSwallowed ==
    [][ event'.op = "unhandledRejection" =>
          /\ pins' = pins
          /\ releStates' = releStates
          /\ cronTasks' = cronTasks
          /\ timeouts' = timeouts
          /\ intervals' = intervals ]_vars

\* C23: a second true sample of an activate condition before its auto-OFF
\* is due re-arms the deactivation, and the deactivation armed by the first
\* sample does not fire: when an auto-OFF of a condition fires, no auto-OFF
\* that the same condition armed later is pending.
C23_SecondSampleRearms ==
    (event.op = "timeout" /\ event.origin[1] = "condition") =>
        \A timer \in DOMAIN timeouts : timer.origin # event.origin

\* value op threshold, with '==' for a difference below 0.5 (both in tenths)
Holds(op, value, threshold) ==
    CASE op = ">"  -> value > threshold
      [] op = "<"  -> value < threshold
      [] op = ">=" -> ~(value < threshold)
      [] op = "<=" -> ~(value > threshold)
      [] op = "==" -> /\ value - threshold < EqualityBand
                      /\ threshold - value < EqualityBand

Stopping == {"stop", "restart", "postSchedule", "postCondition"}

\* C25: stop() leaves every actuator level unchanged: for each relay the
\* level of the pin and the state in memory after stop() are those before it.
C25_StopKeepsLevels ==
    [][ event'.op \in Stopping =>
          \A r \in Reles : /\ pins'[r] = pins[r]
                           /\ releStates'[r] = releStates[r]
                           /\ appReleStates'[r] = appReleStates[r] ]_vars

\* stop() has returned with relay 1 ON and its deactivation still pending.
C25_Witness ==
    /\ event.op = "stop"
    /\ releStates[1]
    /\ pins[1] = pinState(TRUE)
    /\ PendingDeactivations(1) = 1

\* C26: getStatus() is an accurate snapshot in every state: running is false
\* after stop(), the schedule count is the number of live schedule triggers,
\* the condition count is the number of conditions a poll evaluates, and the
\* pending timer count is the number of pending deactivations.
C26_StatusAccurate ==
    LET status == getStatus
    IN  /\ event.op = "stop" => ~status.isRunning
        /\ status.activeSchedules = BagCardinality(ScheduleTriggers)
        /\ intervals # EmptyBag => status.activeConditions = Len(activeConditions)
        /\ "pendingTimerCount" \in DOMAIN status
        /\ status.pendingTimerCount = BagCardinality(timeouts)

\* C27: restart() is one atomic stop-then-init step also when it is called
\* while an init() is suspended at a load of the rule store: once every
\* init() has run to its end each loaded schedule has exactly one live
\* trigger, and at no moment are a trigger created before the stop() of a
\* restart and a trigger created after it both live.
C27_OverlappingRestartAtomic ==
    /\ Settled => \A s \in activeSchedules : Triggers(s.id) = 1
    /\ \A old, new \in DOMAIN ScheduleTriggers : ~(old.stale /\ ~new.stale)

\* C28: only enabled rules act: no schedule with is_active = 0 has a trigger
\* or is run, and no condition with is_active = 0 is among the conditions
\* that a poll evaluates, whether the rule came by the load of init() or by
\* addSchedule / addCondition.
C28_OnlyEnabledRulesAct ==
    /\ \A task \in DOMAIN ScheduleTriggers : task.schedule.is_active
    /\ \A s \in activeSchedules : s.is_active
    /\ \A i \in 1..Len(activeConditions) : activeConditions[i].is_active

====
